---- MODULE Spec2Model ----
(***************************************************************************)
(* Model of include/wlr/config.h, the capability manifest.                 *)
(*                                                                         *)
(* The file is a guarded header holding ten object-like macros.  The model *)
(* is the C preprocessor working through the header's directives, once per *)
(* #include of it in a translation unit, followed by the uses of a flag    *)
(* (`#if WLR_HAS_...`) that the headers it is "required for" make.         *)
(* The backends, renderers, allocators, session manager and event          *)
(* multiplexer that the manifest gates have no code in this repository and *)
(* are not modelled.                                                       *)
(***************************************************************************)
EXTENDS Integers, Sequences, FiniteSets

\* How many times a translation unit includes the header.
MaxIncludes == 2

\* config.h:10
WLR_HAS_DRM_BACKEND == 1
\* config.h:17
WLR_HAS_LIBINPUT_BACKEND == 1
\* config.h:24
WLR_HAS_X11_BACKEND == 1
\* config.h:32
WLR_HAS_GLES2_RENDERER == 1
\* config.h:39
WLR_HAS_VULKAN_RENDERER == 1
\* config.h:45
WLR_HAS_GBM_ALLOCATOR == 1
\* config.h:50
WLR_HAS_UDMABUF_ALLOCATOR == 1
\* config.h:58
WLR_HAS_XWAYLAND == 1
\* config.h:66
WLR_HAS_SESSION == 1
\* config.h:74
WLR_HAS_COLOR_MANAGEMENT == 1

\* The include guard's macro (config.h:1-2).
WLR_CONFIG_H == "WLR_CONFIG_H"

\* The flags, by the name of the pkg-config variable each macro's comment
\* gives ("have_drm_backend" -> drm-backend, ...), in file order.
CapabilityFlags ==
    << "drm-backend", "libinput-backend", "x11-backend", "gles2-renderer",
       "vulkan-renderer", "gbm-allocator", "udmabuf-allocator", "xwayland",
       "session", "color-management" >>

FlagSet == { CapabilityFlags[i] : i \in 1..Len(CapabilityFlags) }

\* The macro that carries a flag.
MacroOf(flag) ==
    CASE flag = "drm-backend"       -> "WLR_HAS_DRM_BACKEND"
      [] flag = "libinput-backend"  -> "WLR_HAS_LIBINPUT_BACKEND"
      [] flag = "x11-backend"       -> "WLR_HAS_X11_BACKEND"
      [] flag = "gles2-renderer"    -> "WLR_HAS_GLES2_RENDERER"
      [] flag = "vulkan-renderer"   -> "WLR_HAS_VULKAN_RENDERER"
      [] flag = "gbm-allocator"     -> "WLR_HAS_GBM_ALLOCATOR"
      [] flag = "udmabuf-allocator" -> "WLR_HAS_UDMABUF_ALLOCATOR"
      [] flag = "xwayland"          -> "WLR_HAS_XWAYLAND"
      [] flag = "session"           -> "WLR_HAS_SESSION"
      [] flag = "color-management"  -> "WLR_HAS_COLOR_MANAGEMENT"

\* A build of the manifest with the X11 backend left out.
ManifestValueNoX11(flag) ==
    CASE flag = "drm-backend"       -> WLR_HAS_DRM_BACKEND
      [] flag = "libinput-backend"  -> WLR_HAS_LIBINPUT_BACKEND
      [] flag = "x11-backend"       -> 0
      [] flag = "gles2-renderer"    -> WLR_HAS_GLES2_RENDERER
      [] flag = "vulkan-renderer"   -> WLR_HAS_VULKAN_RENDERER
      [] flag = "gbm-allocator"     -> WLR_HAS_GBM_ALLOCATOR
      [] flag = "udmabuf-allocator" -> WLR_HAS_UDMABUF_ALLOCATOR
      [] flag = "xwayland"          -> WLR_HAS_XWAYLAND
      [] flag = "session"           -> WLR_HAS_SESSION
      [] flag = "color-management"  -> WLR_HAS_COLOR_MANAGEMENT

\* The replacement text the header gives each flag's macro.
ManifestValue(flag) ==
    CASE flag = "drm-backend"       -> WLR_HAS_DRM_BACKEND
      [] flag = "libinput-backend"  -> WLR_HAS_LIBINPUT_BACKEND
      [] flag = "x11-backend"       -> WLR_HAS_X11_BACKEND
      [] flag = "gles2-renderer"    -> WLR_HAS_GLES2_RENDERER
      [] flag = "vulkan-renderer"   -> WLR_HAS_VULKAN_RENDERER
      [] flag = "gbm-allocator"     -> WLR_HAS_GBM_ALLOCATOR
      [] flag = "udmabuf-allocator" -> WLR_HAS_UDMABUF_ALLOCATOR
      [] flag = "xwayland"          -> WLR_HAS_XWAYLAND
      [] flag = "session"           -> WLR_HAS_SESSION
      [] flag = "color-management"  -> WLR_HAS_COLOR_MANAGEMENT

MacroNames == { WLR_CONFIG_H } \cup { MacroOf(f) : f \in FlagSet }

\* The header's directives in file order: the guard, its define (an empty
\* replacement list), one define per flag, the closing #endif.
Directives ==
    << [op |-> "ifndef", name |-> WLR_CONFIG_H, body |-> <<>>],
       [op |-> "define", name |-> WLR_CONFIG_H, body |-> <<>>] >>
    \o [ i \in 1..Len(CapabilityFlags) |->
           [op |-> "define", name |-> MacroOf(CapabilityFlags[i]),
            body |-> << ManifestValue(CapabilityFlags[i]) >>] ]
    \o << [op |-> "endif", name |-> WLR_CONFIG_H, body |-> <<>>] >>

Undefined == [defined |-> FALSE, body |-> <<>>]

VARIABLES
    macros,     \* the preprocessor's macro table
    pc,         \* index of the next directive of the header, 0 outside it
    skipping,   \* inside the group of a conditional that was false
    includes,   \* #includes of the header so far
    first,      \* per flag: the answer of its first use, "none" before it
    last        \* per flag: the answer of its latest use, "none" before it

vars == << macros, pc, skipping, includes, first, last >>

\* The value of `#if NAME`: an identifier that is no macro is 0, a macro is
\* its replacement (only the flags, whose replacement is one number, are
\* ever evaluated).
IfValue(name) ==
    IF macros[name].defined /\ macros[name].body # <<>>
    THEN macros[name].body[1]
    ELSE 0

\* Whether the variant or subsystem a flag gates is compiled in.
isSupported(flag) == IfValue(MacroOf(flag)) # 0

\* What a use of the flag records: "true" or "false".
Answer(flag) == IF isSupported(flag) THEN "true" ELSE "false"

Init ==
    /\ macros = [n \in MacroNames |-> Undefined]
    /\ pc = 0
    /\ skipping = FALSE
    /\ includes = 0
    /\ first = [f \in FlagSet |-> "none"]
    /\ last = [f \in FlagSet |-> "none"]

\* #include <wlr/config.h>
Include ==
    /\ pc = 0
    /\ includes < MaxIncludes
    /\ pc' = 1
    /\ includes' = includes + 1
    /\ UNCHANGED << macros, skipping, first, last >>

\* #ifndef WLR_CONFIG_H
StepIfndef ==
    /\ pc \in 1..Len(Directives)
    /\ Directives[pc].op = "ifndef"
    /\ skipping' = macros[Directives[pc].name].defined
    /\ pc' = pc + 1
    /\ UNCHANGED << macros, includes, first, last >>

\* #define NAME replacement, in a group that is not skipped
StepDefine ==
    /\ pc \in 1..Len(Directives)
    /\ Directives[pc].op = "define"
    /\ ~skipping
    /\ macros' = [macros EXCEPT ![Directives[pc].name] =
                     [defined |-> TRUE, body |-> Directives[pc].body]]
    /\ pc' = pc + 1
    /\ UNCHANGED << skipping, includes, first, last >>

\* a directive of a skipped group is not processed
StepSkipped ==
    /\ pc \in 1..Len(Directives)
    /\ Directives[pc].op = "define"
    /\ skipping
    /\ pc' = pc + 1
    /\ UNCHANGED << macros, skipping, includes, first, last >>

\* #endif, the end of the header
StepEndif ==
    /\ pc \in 1..Len(Directives)
    /\ Directives[pc].op = "endif"
    /\ skipping' = FALSE
    /\ pc' = 0
    /\ UNCHANGED << macros, includes, first, last >>

\* A use of a flag by code that has included the header.
Query(flag) ==
    /\ pc = 0
    /\ includes >= 1
    /\ last' = [last EXCEPT ![flag] = Answer(flag)]
    /\ first' = IF first[flag] = "none"
                THEN [first EXCEPT ![flag] = Answer(flag)]
                ELSE first
    /\ UNCHANGED << macros, pc, skipping, includes >>

Next ==
    \/ Include
    \/ StepIfndef
    \/ StepDefine
    \/ StepSkipped
    \/ StepEndif
    \/ \E flag \in FlagSet : Query(flag)

Spec == Init /\ [][Next]_vars

\* C3: each of the ten flags answers the same at every use (the latest
\* answer is the first one), the answer is true, and the macro's value in
\* the table and in the manifest is 1; and between uses no step changes a
\* flag's macro once the header has been read (its table entry, whenever a
\* flag has been used, is the manifest's define).
C3_FlagsConstantAndEnabled ==
    \A f \in FlagSet :
        first[f] # "none" =>
            /\ last[f] = first[f]
            /\ last[f] = "true"
            /\ macros[MacroOf(f)] = [defined |-> TRUE, body |-> << 1 >>]
            /\ ManifestValue(f) = 1

\* C3 witness: the header has been included twice (the second time its
\* guard skipped the defines) and every one of the ten flags has been used.
C3_Witness ==
    /\ includes = 2
    /\ pc = 0
    /\ \A f \in FlagSet : last[f] = "true"

====
